---------------------------- MODULE Spec2Model ----------------------------
(***************************************************************************)
(* Step tracking and power accrual of the Pokemon reference app.           *)
(*                                                                         *)
(*   useStepTracking   src/src/hooks/useStepTracking.ts                    *)
(*   usePokemonPower   src/src/types/pokemon.ts (second half of the file)  *)
(*   StorageService    src/src/screens/PokemonListScreen.tsx (tail)        *)
(*   powerCalculation  src/unnamed/part_000                                *)
(*                                                                         *)
(* JavaScript runs every callback to completion, so one action is one      *)
(* synchronous stretch of code: a call up to its first await, or the       *)
(* continuation after an await up to the next one.  A function suspended   *)
(* on an await is a record in a bag of pending calls.  React state         *)
(* (useState) and refs (useRef) are variables named as in the source; a    *)
(* value the hook derives while rendering is an operator over them.        *)
(***************************************************************************)
EXTENDS Integers, Sequences, FiniteSets, Bags, TLC

(***************************************************************************)
(* Bounds of the model.                                                    *)
(***************************************************************************)
MaxWalk == 2          \* sensor batches the user walks during one run
MaxCalls == 2         \* startTracking() calls suspended at the same time
MaxPermCalls == 1     \* permission calls suspended when a caller adds one
MaxWatchers == 2      \* native subscriptions alive plus calls that may add one
MaxPolls == 1         \* getStepCountAsync queries awaiting their answer
MaxPowerInput == 250  \* dense range of inputs of the power formula
MaxBatches == 1       \* pedometer batches walked while the detail view is shown
MaxActivations == 1   \* times the detail view is given a Pokemon
StepBatch == 60       \* steps per pedometer batch in the detail view
MaxStoreCalls == 3    \* storage calls suspended when another event is let in
MaxSwitches == 1      \* times a mounted detail view is given another Pokemon
MaxListeners == 2     \* callbacks registered with StepTracker at the same time
MaxEvents == 2        \* events the native step tracker emits

\* null of a ref or of a result not yet computed; every other value is >= 0.
NULL == -1

Max(a, b) == IF a >= b THEN a ELSE b

Add(bag, x) == bag (+) SetToBag({x})
Del(bag, x) == bag (-) SetToBag({x})

(***************************************************************************)
(* powerCalculation                                                        *)
(***************************************************************************)
STEPS_PER_POWER_LEVEL == 100

\* The formula as Math.ceil would make it.
calculatePowerLevelFromSteps_ceil(steps) ==
    (steps + STEPS_PER_POWER_LEVEL - 1) \div STEPS_PER_POWER_LEVEL

\* Math.floor of the quotient; \div rounds towards minus infinity as Math.floor does.
calculatePowerLevelFromSteps(steps) ==
    steps \div STEPS_PER_POWER_LEVEL

\* The inputs of the repository's test-suite, and 1 and 99 at the first threshold.
TestedInputs == {0, 1, 99, 100, 199, 200, 500, 1000, 10000}

PowerInputs == (0 .. MaxPowerInput) \cup TestedInputs

(***************************************************************************)
(* Error messages of useStepTracking.                                      *)
(***************************************************************************)
ErrNone == "null"
ErrUnavailable == "Pedometer is not available on this device"
ErrSettings == "Permission denied. Please enable Motion & Fitness in Settings."
ErrNotGranted == "Pedometer permission not granted"
ErrRequest == "Unable to request pedometer permission"
ErrThrown == "err.message"

\* error.toLowerCase().includes('permission'); the text of a thrown error is
\* the platform's and is taken not to mention the word.
MentionsPermission(e) == e \in {ErrSettings, ErrNotGranted, ErrRequest}

VARIABLES
    \* ---- the device: pedometer, OS permission ----
    walked,                 \* steps the pedometer has counted since the app launched
    sensorAvailable,        \* what Pedometer.isAvailableAsync() would answer now
    osPermission,           \* "askable" (not granted, the OS may prompt) | "granted" | "blocked"
    permissionApi,          \* typeof Pedometer.get/requestPermissionsAsync === 'function'
    \* ---- useStepTracking: useState ----
    rawSteps, isAvailable, isTracking, error, hasPermission, canAskAgain,
    \* ---- useStepTracking: useRef ----
    startDateRef,           \* NULL, or the pedometer count at the instant new Date() was taken
    subscriptionRef,        \* NULL, or the subscription (named by the count at which it began)
    isInitializedRef, availabilityCheckedRef,
    pollIntervalRef,        \* TRUE when it holds a timer id
    baselineRef,
    \* ---- native resources the hook has created and not released ----
    watchers,               \* bag of live watchStepCount subscriptions, by their starting count
    intervals,              \* number of live setInterval timers
    \* ---- suspended asynchronous calls ----
    startCalls,             \* bag of [pc, perm]: startTracking() calls at an await
    permCalls,              \* bag of [op, pc, err]: checkAvailability / requestPermission at an await
    polls,                  \* bag of step counts: getStepCountAsync answers not yet delivered
    \* ---- the component ----
    autoStart, mounted,
    checkDeps,              \* dependency value for which the availability effect last ran
    autoDeps,               \* dependency values for which the auto-start effect last ran
    steps,                  \* the `steps` the hook returned from its last render
    \* ---- AsyncStorage: the two persisted items, as the mappings they encode ----
    POWER_LEVELS, STEP_PROGRESS,
    \* ---- usePokemonPower ----
    pokemon,                \* the prop: NULL or the id of the Pokemon shown
    basePowerLevel, isLoading, storedSteps,
    trackingStartedRef,
    storeCalls,             \* bag of [op, pc, id, value, then]: storage calls at an await
    powerMounted,           \* usePokemonPower is the caller of the hook and is mounted
    loadDeps, trackDeps, writeDeps,   \* dependency values its three effects last ran for
    stride,                 \* steps the pedometer adds per batch
    route,                  \* steps the user walks in all during the run
    activations,            \* times the prop has been given a Pokemon
    lastLoad,               \* history: which reads of the last finished load had failed
    activatedWith,          \* history: the steps persisted for the Pokemon when it was given
    \* ---- the environment of the storage, and what callers have seen ----
    storageFails,           \* AsyncStorage on this device can reject a getItem or a setItem
    written,                \* history: <<method, id>> :> the value a direct caller of
                            \* StorageService has written with that method for that id
    rejected,               \* history: a promise returned by a command has rejected
    alertShown,             \* Alert.alert('Unable to Open Settings', ...) has been shown
    mounts,                 \* times the detail view has been opened
    \* ---- the power formula applied to an input ----
    argSteps, resPower,
    \* ---- StepTracker (StepTrackerModule.ts) and the native emitter ----
    eventEmitter,           \* this.eventEmitter is not null
    stepUpdateListeners,    \* this.stepUpdateListeners
    subscription,           \* this.subscription is not null
    nativeListeners,        \* handlers the emitter holds for 'onStepUpdate'
    registered,             \* history: callbacks passed to onStepUpdate since the last removal
    events,                 \* events the native module has emitted
    lastEvent,              \* payload of the last event
    lastCalls               \* calls of listeners the last event caused, in order

deviceVars == <<walked, sensorAvailable, osPermission, permissionApi, stride, route>>
stateVars == <<rawSteps, isAvailable, isTracking, error, hasPermission, canAskAgain>>
refVars == <<startDateRef, subscriptionRef, isInitializedRef, availabilityCheckedRef,
             pollIntervalRef, baselineRef>>
resourceVars == <<watchers, intervals>>
callVars == <<startCalls, permCalls, polls>>
componentVars == <<autoStart, mounted, checkDeps, autoDeps>>
formulaVars == <<argSteps, resPower>>
trackerVars == <<eventEmitter, stepUpdateListeners, subscription, nativeListeners,
                 registered, events, lastEvent, lastCalls>>

hookVars == <<deviceVars, stateVars, refVars, resourceVars, callVars, componentVars, steps>>
storageVars == <<POWER_LEVELS, STEP_PROGRESS>>
powerVars == <<pokemon, basePowerLevel, isLoading, storedSteps, trackingStartedRef,
               storeCalls, powerMounted, loadDeps, trackDeps, writeDeps, activations,
               lastLoad, activatedWith>>
auditVars == <<storageFails, written, alertShown, mounts>>
\* what neither usePokemonPower nor StorageService touches
restVars == <<formulaVars, trackerVars, auditVars, rejected>>
\* everything outside useStepTracking and the device, but for `rejected`
calmVars == <<formulaVars, trackerVars, storageVars, powerVars, auditVars>>
\* everything outside useStepTracking and the device
outerVars == <<calmVars, rejected>>
vars == <<hookVars, outerVars>>

(***************************************************************************)
(* useStepTracking: derived value and permission helpers                   *)
(***************************************************************************)
\* const calculatedSteps = Math.max(rawSteps - baselineRef.current, 0)
calculatedSteps == Max(rawSteps - baselineRef, 0)

\* React renders the component again when a state setter has changed a state;
\* the hook then returns the calculatedSteps of that render (line 281).  A
\* write to a ref causes no render.
Rerender ==
    steps' = IF stateVars' # stateVars THEN Max(rawSteps' - baselineRef', 0) ELSE steps

\* A PermissionResponse as the OS builds it from its permission record.
Response(os) == [granted |-> os = "granted", canAskAgain |-> os # "blocked"]

\* typeof response.granted === 'boolean' for every response the OS builds.
parsePermission(response) == response.granted

\* The error updatePermissionState leaves; `captured` is the error of the
\* render whose closure is running, `current` the latest value.
ErrorAfterUpdate(response, captured, current) ==
    IF ~parsePermission(response)
    THEN IF response.canAskAgain = FALSE THEN ErrSettings ELSE ErrNotGranted
    ELSE IF captured # ErrNone /\ MentionsPermission(captured) THEN ErrNone
    ELSE current


(***************************************************************************)
(* StorageService: a Record<number, number>, serialised with               *)
(* JSON.stringify and read back with JSON.parse, is the same mapping of     *)
(* integer keys to integers; the item holds the mapping.                   *)
(***************************************************************************)
Entities == {1, 2}

Put(map, id, value) ==
    [k \in DOMAIN map \cup {id} |-> IF k = id THEN value ELSE map[k]]

Remove(map, id) == [k \in DOMAIN map \ {id} |-> map[k]]

\* map[id] || 0
GetOrZero(map, id) == IF id \in DOMAIN map /\ map[id] # 0 THEN map[id] ELSE 0

\* The mapping saveStepProgress writes back (lines 222-226).
StepProgressUpdate(progress, pokemonId, stepCount) ==
    IF stepCount <= 0 THEN Remove(progress, pokemonId)
    ELSE Put(progress, pokemonId, stepCount)

\* The mapping savePowerLevel writes back (line 192).
PowerLevelUpdate(powerLevels, pokemonId, powerLevel) ==
    Put(powerLevels, pokemonId, powerLevel)

(***************************************************************************)
(* usePokemonPower: derived values (lines 138-140)                         *)
(***************************************************************************)
totalSteps == storedSteps + steps

stepsFromPower == calculatePowerLevelFromSteps(totalSteps)

\* The total without the stored power level.
totalPowerLevel_stepsOnly == stepsFromPower

totalPowerLevel == basePowerLevel + stepsFromPower

\* Dependency lists of lines 100/104, 136 and 145.
LoadDeps == <<pokemon>>
TrackDeps == <<pokemon, isTracking, isAvailable, hasPermission>>
WriteDeps == <<pokemon, totalSteps>>

LoadEffectDue == powerMounted /\ loadDeps # LoadDeps
TrackEffectDue == powerMounted /\ trackDeps # TrackDeps
WriteEffectDue == powerMounted /\ writeDeps # WriteDeps
PowerEffectsDue == LoadEffectDue \/ TrackEffectDue \/ WriteEffectDue

(***************************************************************************)
(* Effects whose dependencies have changed since they last ran             *)
(***************************************************************************)
\* What the identity of checkPermissionStatus depends on (lines 67, 119, 140).
CheckDeps == <<error>>
\* The dependency list of line 265; startTracking's identity follows
\* hasPermission and requestPermission (line 235), hence error.
AutoDeps == <<isAvailable, hasPermission, isTracking, error>>

CheckEffectDue == mounted /\ checkDeps # CheckDeps
AutoEffectDue == mounted /\ autoStart /\ autoDeps # AutoDeps
EffectsDue == CheckEffectDue \/ AutoEffectDue

\* React runs the effects of a commit before the next event is handled.
Ready == ~EffectsDue /\ ~PowerEffectsDue

\* The model lets a new event in only while few storage calls are suspended.
StoreRoom == BagCardinality(storeCalls) < MaxStoreCalls

(***************************************************************************)
(* Initial state: the hook has rendered once (useState / useRef initial    *)
(* values) and its mount effects have not run yet.                         *)
(***************************************************************************)
\* useState / useRef initial values of lines 21-32, and no effect has run.
FirstRender ==
    /\ rawSteps = 0
    /\ isAvailable = FALSE
    /\ isTracking = FALSE
    /\ error = ErrNone
    /\ hasPermission = FALSE
    /\ canAskAgain = TRUE
    /\ startDateRef = NULL
    /\ subscriptionRef = NULL
    /\ isInitializedRef = FALSE
    /\ availabilityCheckedRef = FALSE
    /\ pollIntervalRef = FALSE
    /\ baselineRef = 0
    /\ checkDeps = << >>
    /\ autoDeps = << >>
    /\ steps = 0

\* No subscription, timer or suspended call exists.
NoSession ==
    /\ watchers = EmptyBag
    /\ intervals = 0
    /\ startCalls = EmptyBag
    /\ permCalls = EmptyBag
    /\ polls = EmptyBag

DeviceInit ==
    /\ walked = 0
    /\ sensorAvailable \in BOOLEAN
    /\ osPermission \in {"askable", "granted", "blocked"}
    /\ permissionApi \in BOOLEAN
    /\ autoStart = FALSE
    /\ rejected = FALSE
    /\ alertShown = FALSE
    /\ mounts = 1

HookInit ==
    /\ DeviceInit
    /\ FirstRender
    /\ NoSession
    /\ mounted = TRUE

FormulaIdle ==
    /\ argSteps = 0
    /\ resPower = NULL

\* No native event has been emitted.
NoEvent == [shape |-> "none", error |-> FALSE, type |-> "undefined", n |-> 0]

\* StepTracker as constructed (lines 15-17), nothing registered, no event yet.
TrackerFields ==
    /\ stepUpdateListeners = << >>
    /\ subscription = FALSE
    /\ nativeListeners = 0
    /\ registered = << >>
    /\ events = 0
    /\ lastEvent = NoEvent
    /\ lastCalls = << >>

\* The module on a build that has the native StepTrackerModule (lines 19-23).
TrackerIdle == eventEmitter = TRUE /\ TrackerFields

\* usePokemonPower after its first render (lines 66-68, 80).
PowerInit ==
    /\ pokemon = NULL
    /\ basePowerLevel = 0
    /\ isLoading = TRUE
    /\ storedSteps = 0
    /\ trackingStartedRef = NULL
    /\ storeCalls = EmptyBag
    /\ loadDeps = << >>
    /\ trackDeps = << >>
    /\ writeDeps = << >>
    /\ activations = 0
    /\ lastLoad = [done |-> FALSE, power |-> FALSE, steps |-> FALSE]
    /\ activatedWith = 0

\* The hook is used without usePokemonPower.
PowerIdle ==
    /\ PowerInit
    /\ powerMounted = FALSE
    /\ written = << >>

\* Nothing is persisted and nothing calls the storage.
EmptyStorage ==
    /\ POWER_LEVELS = << >>
    /\ STEP_PROGRESS = << >>
    /\ storageFails = FALSE

(***************************************************************************)
(* The device                                                              *)
(***************************************************************************)
\* The user walks; the pedometer's count only grows.
Walk ==
    /\ UNCHANGED outerVars
    /\ Ready
    /\ walked + stride <= route
    /\ walked' = walked + stride
    /\ UNCHANGED <<sensorAvailable, osPermission, permissionApi, stride, route>>
    /\ UNCHANGED <<stateVars, refVars, resourceVars, callVars, componentVars>>
    /\ Rerender

\* The pedometer capability appears or disappears.
SensorChange ==
    /\ UNCHANGED outerVars
    /\ Ready
    /\ sensorAvailable' = ~sensorAvailable
    /\ UNCHANGED <<walked, osPermission, permissionApi, stride, route>>
    /\ UNCHANGED <<stateVars, refVars, resourceVars, callVars, componentVars>>
    /\ Rerender

\* The user enables Motion & Fitness for the app in the OS settings.
SettingsGrant ==
    /\ UNCHANGED outerVars
    /\ Ready
    /\ osPermission # "granted"
    /\ osPermission' = "granted"
    /\ UNCHANGED <<walked, sensorAvailable, permissionApi, stride, route>>
    /\ UNCHANGED <<stateVars, refVars, resourceVars, callVars, componentVars>>
    /\ Rerender

\* What the OS records after Pedometer.requestPermissionsAsync(): it prompts
\* only while it may still ask, and the user answers.
AfterPrompt(os) ==
    IF os = "askable" THEN {"granted", "askable", "blocked"} ELSE {os}

(***************************************************************************)
(* try / catch: each block of useStepTracking.ts as <<line of `try {`, line *)
(* of `} catch`>>.  What is thrown on a line between the two is caught by   *)
(* the function itself; what is thrown elsewhere in an async function       *)
(* rejects the promise it returned.                                         *)
(***************************************************************************)
\* startTracking with a try that would open after its availability query.
TryBlocks_late ==
    {<<70, 81>>, <<92, 113>>, <<122, 134>>, <<146, 158>>, <<186, 228>>, <<207, 216>>,
     <<242, 256>>}

TryBlocks ==
    {<<70, 81>>, <<92, 113>>, <<122, 134>>, <<146, 158>>, <<177, 228>>, <<207, 216>>,
     <<242, 256>>}

Caught(line) == \E b \in TryBlocks : b[1] < line /\ line < b[2]

\* `rejected` after a throw on the given line.
Thrown(line) == rejected' = (rejected \/ ~Caught(line))

(***************************************************************************)
(* startTracking: lines 198-225, reached with permission granted           *)
(***************************************************************************)
BeginSession(availableNow) ==
    /\ startDateRef' = walked
    /\ UNCHANGED availabilityCheckedRef
    /\ \/ /\ watchers' = Add(watchers, walked)
          /\ subscriptionRef' = walked
          /\ intervals' = intervals + 1
          /\ pollIntervalRef' = TRUE
          /\ isInitializedRef' = TRUE
          /\ baselineRef' = 0
          /\ rawSteps' = 0
          /\ isTracking' = TRUE
          /\ error' = ErrNone
          /\ isAvailable' = availableNow
          /\ UNCHANGED rejected
       \/ \* Pedometer.watchStepCount throws: the catch of line 228
          /\ Thrown(200)
          /\ UNCHANGED <<watchers, subscriptionRef, intervals, pollIntervalRef,
                         isInitializedRef, baselineRef, rawSteps>>
          /\ isTracking' = FALSE
          /\ error' = ErrThrown
          /\ isAvailable' = FALSE

\* startTracking() up to its first await (lines 169-178).
startTracking ==
    IF isInitializedRef
    THEN UNCHANGED startCalls
    ELSE startCalls' = Add(startCalls, [pc |-> "isAvailableAsync", perm |-> hasPermission])

\* A caller invokes startTracking().
CallStartTracking ==
    /\ UNCHANGED outerVars
    /\ Ready
    /\ mounted
    /\ BagCardinality(startCalls) < MaxCalls
    /\ BagCardinality(permCalls) < MaxPermCalls
    /\ BagCardinality(watchers) + BagCardinality(startCalls) < MaxWatchers
    /\ startTracking
    /\ UNCHANGED <<deviceVars, stateVars, refVars, resourceVars, permCalls, polls,
                   componentVars>>
    /\ Rerender

\* Pedometer.isAvailableAsync() answers a startTracking() call (lines 178-196).
StartAvailable ==
    /\ UNCHANGED calmVars
    /\ Ready
    /\ \E c \in BagToSet(startCalls) :
      /\ c.pc = "isAvailableAsync"
      /\ UNCHANGED <<deviceVars, permCalls, polls, componentVars>>
      /\ \/ \* the query throws: catch of line 228
            /\ startCalls' = Del(startCalls, c)
            /\ error' = ErrThrown
            /\ isAvailable' = FALSE
            /\ isTracking' = FALSE
            /\ Thrown(178)
            /\ UNCHANGED <<rawSteps, hasPermission, canAskAgain, refVars, resourceVars>>
         \/ /\ ~sensorAvailable
            /\ startCalls' = Del(startCalls, c)
            /\ isAvailable' = FALSE
            /\ error' = ErrUnavailable
            /\ UNCHANGED <<rawSteps, isTracking, hasPermission, canAskAgain, refVars,
                           resourceVars, rejected>>
         \/ /\ sensorAvailable
            /\ c.perm
            /\ startCalls' = Del(startCalls, c)
            /\ BeginSession(TRUE)
            /\ UNCHANGED <<hasPermission, canAskAgain>>
         \/ \* requestPermission() without a permission API: lines 111-112
            /\ sensorAvailable
            /\ ~c.perm
            /\ ~permissionApi
            /\ startCalls' = Del(startCalls, c)
            /\ hasPermission' = TRUE
            /\ BeginSession(TRUE)
            /\ UNCHANGED canAskAgain
         \/ \* requestPermission(): Pedometer.requestPermissionsAsync() is issued
            /\ sensorAvailable
            /\ ~c.perm
            /\ permissionApi
            /\ startCalls' = Add(Del(startCalls, c),
                                 [pc |-> "requestPermissionsAsync", perm |-> c.perm])
            /\ isAvailable' = TRUE
            /\ UNCHANGED <<rawSteps, isTracking, error, hasPermission, canAskAgain,
                           refVars, resourceVars, rejected>>
    /\ Rerender

\* The OS answers the permission request made by startTracking() (lines 94-117,
\* then 193-225).
StartRequested ==
    /\ UNCHANGED calmVars
    /\ Ready
    /\ \E c \in BagToSet(startCalls) :
      /\ c.pc = "requestPermissionsAsync"
      /\ startCalls' = Del(startCalls, c)
      /\ UNCHANGED <<walked, sensorAvailable, permissionApi, stride, route, permCalls, polls,
                     componentVars>>
      /\ \/ \* the request throws: catch of line 113, then line 194
            /\ hasPermission' = FALSE
            /\ error' = ErrNotGranted
            /\ Thrown(94)
            /\ UNCHANGED <<osPermission, rawSteps, isAvailable, isTracking, canAskAgain,
                           refVars, resourceVars>>
         \/ \E os \in AfterPrompt(osPermission) :
              /\ osPermission' = os
              /\ hasPermission' = parsePermission(Response(os))
              /\ canAskAgain' = Response(os).canAskAgain
              /\ IF parsePermission(Response(os))
                 THEN BeginSession(isAvailable)
                 ELSE /\ error' = ErrNotGranted
                      /\ UNCHANGED <<rawSteps, isAvailable, isTracking, refVars,
                                     resourceVars, rejected>>
    /\ Rerender

\* stopTracking(), lines 237-259.
stopTracking ==
    IF ~isInitializedRef
    THEN UNCHANGED <<isTracking, subscriptionRef, pollIntervalRef, isInitializedRef,
                     watchers, intervals>>
    ELSE /\ watchers' = IF subscriptionRef # NULL THEN Del(watchers, subscriptionRef)
                        ELSE watchers
         /\ subscriptionRef' = NULL
         /\ intervals' = IF pollIntervalRef THEN intervals - 1 ELSE intervals
         /\ pollIntervalRef' = FALSE
         /\ isInitializedRef' = FALSE
         /\ isTracking' = FALSE

\* A caller invokes stopTracking().
CallStopTracking ==
    /\ UNCHANGED outerVars
    /\ Ready
    /\ mounted
    /\ stopTracking
    /\ UNCHANGED <<deviceVars, rawSteps, isAvailable, error, hasPermission, canAskAgain,
                   startDateRef, availabilityCheckedRef, baselineRef, callVars,
                   componentVars>>
    /\ Rerender

\* openSettings(), lines 69-89: the deep link opens the settings page of the
\* app, or Linking.canOpenURL / openURL / openSettings fails or no way to open
\* the settings exists (line 78), and the catch shows an alert.
openSettings ==
    \/ UNCHANGED <<alertShown, rejected>>
    \/ IF Caught(78)
       THEN alertShown' = TRUE /\ UNCHANGED rejected
       ELSE rejected' = TRUE /\ UNCHANGED alertShown

\* The UI (or any caller) invokes openSettings().
CallOpenSettings ==
    /\ Ready
    /\ mounted
    /\ openSettings
    /\ UNCHANGED <<hookVars, formulaVars, trackerVars, storageVars, powerVars, storageFails,
                   written, mounts>>

\* resetSteps(), lines 276-278.
resetSteps == baselineRef' = rawSteps

\* A caller invokes resetSteps().
CallResetSteps ==
    /\ UNCHANGED outerVars
    /\ Ready
    /\ mounted
    /\ resetSteps
    /\ UNCHANGED <<deviceVars, stateVars, startDateRef, subscriptionRef, isInitializedRef,
                   availabilityCheckedRef, pollIntervalRef, resourceVars, callVars,
                   componentVars>>
    /\ Rerender


(***************************************************************************)
(* Permission: requestPermission, checkPermissionStatus, checkAvailability *)
(***************************************************************************)
\* requestPermission() up to its await (lines 91-94), or to its end when the
\* platform has no permission API (lines 111-112).
requestPermission(op, err) ==
    IF permissionApi
    THEN /\ permCalls' = Add(permCalls,
                             [op |-> op, pc |-> "requestPermissionsAsync", err |-> err])
         /\ UNCHANGED hasPermission
    ELSE /\ hasPermission' = TRUE
         /\ UNCHANGED permCalls

\* The UI (or any caller) invokes requestPermission().
CallRequestPermission ==
    /\ UNCHANGED outerVars
    /\ Ready
    /\ mounted
    /\ BagCardinality(permCalls) < MaxPermCalls
    /\ requestPermission("requestPermission", error)
    /\ UNCHANGED <<deviceVars, rawSteps, isAvailable, isTracking, error, canAskAgain,
                   refVars, resourceVars, startCalls, polls, componentVars>>
    /\ Rerender

\* The OS answers a permission request made by requestPermission() on behalf
\* of the UI or of checkPermissionStatus (lines 94-117).
PermissionRequested ==
    /\ UNCHANGED calmVars
    /\ Ready
    /\ \E c \in BagToSet(permCalls) :
      /\ c.pc = "requestPermissionsAsync"
      /\ permCalls' = Del(permCalls, c)
      /\ UNCHANGED <<walked, sensorAvailable, permissionApi, stride, route, rawSteps, isAvailable,
                     isTracking, refVars, resourceVars, startCalls, polls, componentVars>>
      /\ \/ \* the request throws: catch of line 113
            /\ error' = ErrRequest
            /\ hasPermission' = FALSE
            /\ Thrown(94)
            /\ UNCHANGED <<osPermission, canAskAgain>>
         \/ \E os \in AfterPrompt(osPermission) :
              /\ osPermission' = os
              /\ hasPermission' = parsePermission(Response(os))
              /\ canAskAgain' = Response(os).canAskAgain
              /\ error' = ErrorAfterUpdate(Response(os), c.err, error)
              /\ UNCHANGED rejected
    /\ Rerender

\* Pedometer.isAvailableAsync() answers the availability effect (lines 148-163);
\* checkPermissionStatus() then runs up to its await (lines 121-124) or, without
\* a permission API, to its end (lines 131-133).
AvailabilityChecked ==
    /\ UNCHANGED calmVars
    /\ Ready
    /\ \E c \in BagToSet(permCalls) :
      /\ c.pc = "isAvailableAsync"
      /\ UNCHANGED <<deviceVars, rawSteps, isTracking, startDateRef, subscriptionRef,
                     isInitializedRef, pollIntervalRef, baselineRef, resourceVars,
                     startCalls, polls, componentVars>>
      /\ \/ \* the query throws: catch of line 158
            /\ permCalls' = Del(permCalls, c)
            /\ error' = ErrThrown
            /\ isAvailable' = FALSE
            /\ Thrown(148)
            /\ UNCHANGED <<hasPermission, canAskAgain, availabilityCheckedRef>>
         \/ /\ ~sensorAvailable
            /\ permCalls' = Del(permCalls, c)
            /\ isAvailable' = FALSE
            /\ availabilityCheckedRef' = TRUE
            /\ error' = ErrUnavailable
            /\ UNCHANGED <<hasPermission, canAskAgain, rejected>>
         \/ /\ sensorAvailable
            /\ isAvailable' = TRUE
            /\ availabilityCheckedRef' = TRUE
            /\ UNCHANGED rejected
            /\ IF permissionApi
               THEN /\ permCalls' = Add(Del(permCalls, c),
                                        [c EXCEPT !.pc = "getPermissionsAsync"])
                    /\ UNCHANGED <<hasPermission, canAskAgain, error>>
               ELSE /\ permCalls' = Del(permCalls, c)
                    /\ hasPermission' = TRUE
                    /\ canAskAgain' = TRUE
                    /\ UNCHANGED error
    /\ Rerender

\* checkPermissionStatus after Pedometer.getPermissionsAsync() has answered
\* (lines 124-139).
checkPermissionStatus(c) ==
    /\ UNCHANGED <<osPermission>>
    /\ hasPermission' = parsePermission(Response(osPermission))
    /\ canAskAgain' = Response(osPermission).canAskAgain
    /\ error' = ErrorAfterUpdate(Response(osPermission), c.err, error)
    /\ IF ~parsePermission(Response(osPermission)) /\ Response(osPermission).canAskAgain
       THEN \* return requestPermission(), which issues the OS request
            permCalls' = Add(Del(permCalls, c), [c EXCEPT !.pc = "requestPermissionsAsync"])
       ELSE permCalls' = Del(permCalls, c)

PermissionStatus ==
    /\ UNCHANGED calmVars
    /\ Ready
    /\ \E c \in BagToSet(permCalls) :
      /\ c.pc = "getPermissionsAsync"
      /\ UNCHANGED <<walked, sensorAvailable, permissionApi, stride, route, rawSteps, isAvailable,
                     isTracking, refVars, resourceVars, startCalls, polls, componentVars>>
      /\ \/ \* the query throws: catch of line 134
            /\ permCalls' = Del(permCalls, c)
            /\ hasPermission' = TRUE
            /\ canAskAgain' = TRUE
            /\ Thrown(124)
            /\ UNCHANGED <<osPermission, error>>
         \/ /\ checkPermissionStatus(c)
            /\ UNCHANGED rejected
    /\ Rerender

(***************************************************************************)
(* The two update channels                                                 *)
(***************************************************************************)
\* The watchStepCount callback of a live subscription (lines 200-203): the
\* steps counted since that subscription began.
Push ==
    /\ UNCHANGED outerVars
    /\ Ready
    /\ StoreRoom
    /\ \E w \in BagToSet(watchers) :
      /\ rawSteps' = walked - w
      /\ UNCHANGED <<deviceVars, isAvailable, isTracking, error, hasPermission,
                     canAskAgain, refVars, resourceVars, callVars, componentVars>>
    /\ Rerender

\* A tick of a live interval timer (lines 206-210): the query for the steps of
\* [startDateRef.current, now] is issued; its answer is fixed by `now`.
PollTick ==
    /\ UNCHANGED outerVars
    /\ Ready
    /\ intervals > 0
    /\ startDateRef # NULL
    /\ BagCardinality(polls) < MaxPolls
    /\ polls' = Add(polls, walked - startDateRef)
    /\ UNCHANGED <<deviceVars, stateVars, refVars, resourceVars, startCalls, permCalls,
                   componentVars>>
    /\ Rerender

\* The answer of a query arrives (lines 210-214); a rejected query is only
\* logged (line 216).
PollAnswer(result) ==
    IF result > 0 THEN rawSteps' = result ELSE UNCHANGED rawSteps

PollResult ==
    /\ UNCHANGED outerVars
    /\ Ready
    /\ StoreRoom
    /\ \E result \in BagToSet(polls) :
      /\ polls' = Del(polls, result)
      /\ \/ PollAnswer(result)
         \/ UNCHANGED rawSteps
      /\ UNCHANGED <<deviceVars, isAvailable, isTracking, error, hasPermission,
                     canAskAgain, refVars, resourceVars, startCalls, permCalls,
                     componentVars>>
    /\ Rerender

(***************************************************************************)
(* Effects and unmount                                                     *)
(***************************************************************************)
\* useEffect of lines 142-167: checkAvailability() up to its await.
AvailabilityEffect ==
    /\ UNCHANGED outerVars
    /\ CheckEffectDue
    /\ checkDeps' = CheckDeps
    /\ permCalls' = IF availabilityCheckedRef THEN permCalls
                    ELSE Add(permCalls, [op |-> "checkAvailability",
                                         pc |-> "isAvailableAsync", err |-> error])
    /\ UNCHANGED <<deviceVars, stateVars, refVars, resourceVars, startCalls, polls,
                   autoStart, mounted, autoDeps>>
    /\ Rerender

\* useEffect of lines 261-265.
AutoStartEffect ==
    /\ UNCHANGED outerVars
    /\ ~CheckEffectDue
    /\ AutoEffectDue
    /\ autoDeps' = AutoDeps
    /\ IF isAvailable /\ hasPermission /\ ~isTracking /\ ~isInitializedRef
       THEN startTracking
       ELSE UNCHANGED startCalls
    /\ UNCHANGED <<deviceVars, stateVars, refVars, resourceVars, permCalls, polls,
                   autoStart, mounted, checkDeps>>
    /\ Rerender

\* The component unmounts: cleanup of lines 267-274.
Cleanup ==
    /\ mounted
    /\ mounted' = FALSE
    /\ stopTracking
    /\ UNCHANGED <<deviceVars, rawSteps, isAvailable, error, hasPermission, canAskAgain,
                   startDateRef, availabilityCheckedRef, baselineRef, callVars,
                   autoStart, checkDeps, autoDeps, steps>>

Unmount ==
    /\ UNCHANGED outerVars
    /\ Ready
    /\ Cleanup

\* The component that uses the hook renders again for a reason of its own
\* (a state of its own, its parent): line 34 is evaluated anew.
CallerRenders ==
    /\ UNCHANGED outerVars
    /\ Ready
    /\ mounted
    /\ steps # calculatedSteps
    /\ steps' = calculatedSteps
    /\ UNCHANGED <<deviceVars, stateVars, refVars, resourceVars, callVars, componentVars>>

(***************************************************************************)
(* The hook with an arbitrary caller                                       *)
(***************************************************************************)
HookEffect ==
    \/ AvailabilityEffect

HookCommand ==
    \/ CallStartTracking
    \/ CallStopTracking
    \/ CallRequestPermission
    \/ CallResetSteps
    \/ CallerRenders

HookCallback ==
    \/ StartAvailable
    \/ StartRequested
    \/ PermissionRequested
    \/ AvailabilityChecked
    \/ PermissionStatus
    \/ Push
    \/ PollTick
    \/ PollResult

Device ==
    \/ Walk
    \/ SensorChange
    \/ SettingsGrant

Init ==
    /\ HookInit /\ stride = 1 /\ route = MaxWalk /\ PowerIdle /\ EmptyStorage /\ FormulaIdle
    /\ TrackerIdle

Next ==
    \/ HookEffect
    \/ HookCommand
    \/ HookCallback
    \/ Device

\* useStepTracking(false), as the repository calls it, mounted, with any caller.
Spec == Init /\ [][Next]_vars

CommandsNext ==
    \/ AvailabilityEffect
    \/ CallStartTracking
    \/ CallStopTracking
    \/ CallRequestPermission
    \/ CallOpenSettings
    \/ StartAvailable
    \/ StartRequested
    \/ PermissionRequested
    \/ AvailabilityChecked
    \/ PermissionStatus
    \/ SensorChange
    \/ SettingsGrant

\* The commands of the hook and what they wait for, with no steps walked.
SpecCommands == Init /\ [][CommandsNext]_vars

(***************************************************************************)
(* The power formula on its own                                            *)
(***************************************************************************)
HookIdle ==
    /\ HookInit
    /\ stride = 1
    /\ route = 0
    /\ PowerIdle
    /\ EmptyStorage
    /\ sensorAvailable = FALSE
    /\ osPermission = "askable"
    /\ permissionApi = TRUE

Calculate ==
    /\ resPower = NULL
    /\ resPower' = calculatePowerLevelFromSteps(argSteps)
    /\ UNCHANGED <<argSteps, trackerVars, hookVars, storageVars, powerVars, auditVars, rejected>>

NextInput ==
    /\ resPower # NULL
    /\ argSteps' \in PowerInputs
    /\ resPower' = NULL
    /\ UNCHANGED <<trackerVars, hookVars, storageVars, powerVars, auditVars, rejected>>

FormulaInit ==
    /\ HookIdle
    /\ TrackerIdle
    /\ argSteps \in PowerInputs
    /\ resPower = NULL

FormulaNext ==
    \/ Calculate
    \/ NextInput

SpecFormula == FormulaInit /\ [][FormulaNext]_vars

(***************************************************************************)
(* usePokemonPower and StorageService                                      *)
(***************************************************************************)
StoreCall(op, pc, id, value, then, by) ==
    [op |-> op, pc |-> pc, id |-> id, value |-> value, then |-> then, by |-> by,
     map |-> << >>, failed |-> FALSE]

\* A catch that would answer with the item all the same.
ReadOf_cached(item) ==
    {[map |-> item, failed |-> FALSE]}
    \cup (IF storageFails THEN {[map |-> item, failed |-> TRUE]} ELSE {})

\* AsyncStorage.getItem answers with the item, or rejects and the catch of
\* getPowerLevels / getStepProgressMap returns {} (lines 179-187, 204-212).
\* `failed` tells the two apart for the history the model keeps.
ReadOf(item) ==
    {[map |-> item, failed |-> FALSE]}
    \cup (IF storageFails THEN {[map |-> << >>, failed |-> TRUE]} ELSE {})

\* finally { setIsLoading(false) } of loadPowerLevel (lines 97-99).
LoadingAfterLoad == FALSE

\* The screen gives the hook a Pokemon to show.
SetPokemon ==
    /\ Ready
    /\ powerMounted
    /\ StoreRoom
    /\ activations < MaxActivations
    /\ \E id \in Entities \ {pokemon} : pokemon' = id
    /\ activations' = activations + 1
    /\ activatedWith' = GetOrZero(STEP_PROGRESS, pokemon')
    /\ UNCHANGED <<hookVars, restVars, storageVars, basePowerLevel, isLoading,
                   storedSteps, trackingStartedRef, storeCalls, powerMounted, loadDeps,
                   trackDeps, writeDeps, lastLoad>>

\* The caller renders the mounted hook with another Pokemon than the one it
\* had: the `pokemon` argument of line 65 changes from one entity to another.
SwitchPokemon ==
    /\ Ready
    /\ powerMounted
    /\ StoreRoom
    /\ pokemon # NULL
    /\ activations < MaxActivations + MaxSwitches
    /\ \E id \in Entities \ {pokemon} : pokemon' = id
    /\ activations' = activations + 1
    /\ activatedWith' = GetOrZero(STEP_PROGRESS, pokemon')
    /\ UNCHANGED <<hookVars, restVars, storageVars, basePowerLevel, isLoading,
                   storedSteps, trackingStartedRef, storeCalls, powerMounted, loadDeps,
                   trackDeps, writeDeps, lastLoad>>

\* useEffect of lines 102-104: loadPowerLevel() up to its first await (lines 82-89).
LoadEffect ==
    /\ ~EffectsDue
    /\ LoadEffectDue
    /\ loadDeps' = LoadDeps
    /\ IF pokemon = NULL
       THEN isLoading' = FALSE /\ UNCHANGED storeCalls
       ELSE /\ storeCalls' = Add(storeCalls, StoreCall("loadPowerLevel", "getPowerLevels",
                                                        pokemon, 0, NULL, "load"))
            /\ UNCHANGED isLoading
    /\ UNCHANGED <<hookVars, restVars, storageVars, pokemon, basePowerLevel,
                   storedSteps, trackingStartedRef, powerMounted, trackDeps, writeDeps,
                   activations, activatedWith, lastLoad>>

\* useEffect of lines 106-136.
TrackEffect ==
    /\ ~EffectsDue
    /\ ~LoadEffectDue
    /\ TrackEffectDue
    /\ trackDeps' = TrackDeps
    /\ IF /\ pokemon # NULL
          /\ ~isTracking
          /\ isAvailable
          /\ hasPermission
          /\ trackingStartedRef # pokemon
       THEN /\ trackingStartedRef' = pokemon
            /\ startTracking
       ELSE /\ trackingStartedRef' =
                  IF pokemon # NULL /\ trackingStartedRef # NULL
                     /\ trackingStartedRef # pokemon
                  THEN NULL ELSE trackingStartedRef
            /\ UNCHANGED startCalls
    /\ UNCHANGED <<deviceVars, stateVars, refVars, resourceVars, permCalls, polls,
                   componentVars, steps>>
    /\ UNCHANGED <<restVars, storageVars, pokemon, basePowerLevel, isLoading,
                   storedSteps, storeCalls, powerMounted, loadDeps, writeDeps,
                   activations, activatedWith, lastLoad>>

\* A write-through that would hand the total to savePowerLevel as well.
writeThrough_withPower ==
    StoreCall("savePowerLevel", "getItem", pokemon, totalPowerLevel, totalSteps, "effect")

\* storageService.saveStepProgress(pokemon.id, totalSteps) of line 144, up to
\* its await (lines 219-221).
writeThrough ==
    StoreCall("saveStepProgress", "getItem", pokemon, totalSteps, NULL, "effect")

\* useEffect of lines 142-145.
WriteEffect ==
    /\ ~EffectsDue
    /\ ~LoadEffectDue
    /\ ~TrackEffectDue
    /\ WriteEffectDue
    /\ writeDeps' = WriteDeps
    /\ storeCalls' = IF pokemon = NULL THEN storeCalls
                     ELSE Add(storeCalls, writeThrough)
    /\ UNCHANGED <<hookVars, restVars, storageVars, pokemon, basePowerLevel,
                   isLoading, storedSteps, trackingStartedRef, powerMounted, loadDeps,
                   trackDeps, activations, activatedWith, lastLoad>>

\* refreshPower() up to its first await (lines 147-150, 189-191).
refreshPower ==
    IF pokemon = NULL
    THEN UNCHANGED storeCalls
    ELSE storeCalls' = Add(storeCalls, StoreCall("savePowerLevel", "getItem", pokemon,
                                                 totalPowerLevel, totalSteps,
                                                 "refreshPower"))

\* The user saves.
CallRefreshPower ==
    /\ Ready
    /\ powerMounted
    /\ StoreRoom
    /\ \A c \in BagToSet(storeCalls) : c.by # "refreshPower"
    /\ refreshPower
    /\ UNCHANGED <<hookVars, restVars, storageVars, pokemon, basePowerLevel,
                   isLoading, storedSteps, trackingStartedRef, powerMounted, loadDeps,
                   trackDeps, writeDeps, activations, activatedWith, lastLoad>>

\* loadPowerLevel: getPowerLevel() has answered (lines 89-90, 199-202).
PowerLevelsRead ==
    /\ Ready
    /\ \E c \in BagToSet(storeCalls), read \in ReadOf(POWER_LEVELS) :
         /\ c.pc = "getPowerLevels"
         /\ storeCalls' = Add(Del(storeCalls, c),
                              [c EXCEPT !.pc = "getStepProgress",
                                        !.value = GetOrZero(read.map, c.id),
                                        !.failed = read.failed])
    /\ UNCHANGED <<hookVars, restVars, storageVars, pokemon, basePowerLevel,
                   isLoading, storedSteps, trackingStartedRef, powerMounted, loadDeps,
                   trackDeps, writeDeps, activations, activatedWith, lastLoad>>

\* loadPowerLevel: getStepProgress() has answered (lines 90-99, 214-217).
StepProgressRead ==
    /\ Ready
    /\ \E c \in BagToSet(storeCalls), read \in ReadOf(STEP_PROGRESS) :
         /\ c.pc = "getStepProgress"
         /\ storeCalls' = Del(storeCalls, c)
         /\ basePowerLevel' = c.value
         /\ storedSteps' = GetOrZero(read.map, c.id)
         /\ isLoading' = LoadingAfterLoad
         /\ lastLoad' = [done |-> TRUE, power |-> c.failed, steps |-> read.failed]
    /\ UNCHANGED <<hookVars, restVars, storageVars, pokemon, trackingStartedRef,
                   powerMounted, loadDeps, trackDeps, writeDeps, activations, activatedWith>>

\* savePowerLevel / saveStepProgress: the mapping has been read and the
\* changed mapping is handed to AsyncStorage.setItem (lines 191-193, 221-227).
SaveRead ==
    /\ Ready
    /\ \E c \in BagToSet(storeCalls) :
         /\ c.pc = "getItem"
         /\ \E read \in ReadOf(IF c.op = "savePowerLevel" THEN POWER_LEVELS
                              ELSE STEP_PROGRESS) :
              storeCalls' = Add(Del(storeCalls, c),
                  [c EXCEPT !.pc = "setItem",
                            !.failed = read.failed,
                            !.map = IF c.op = "savePowerLevel"
                                    THEN PowerLevelUpdate(read.map, c.id, c.value)
                                    ELSE StepProgressUpdate(read.map, c.id, c.value)])
    /\ UNCHANGED <<hookVars, restVars, storageVars, pokemon, basePowerLevel,
                   isLoading, storedSteps, trackingStartedRef, powerMounted, loadDeps,
                   trackDeps, writeDeps, activations, activatedWith, lastLoad>>

\* AsyncStorage.setItem has stored the mapping, or has rejected and the catch
\* only logs (lines 193-196, 227-230); refreshPower then goes on to
\* saveStepProgress (line 151).
SaveWritten ==
    /\ Ready
    /\ \E c \in BagToSet(storeCalls) :
         /\ c.pc = "setItem"
         /\ \/ /\ c.op = "savePowerLevel"
               /\ POWER_LEVELS' = c.map
               /\ UNCHANGED STEP_PROGRESS
            \/ /\ c.op = "saveStepProgress"
               /\ STEP_PROGRESS' = c.map
               /\ UNCHANGED POWER_LEVELS
            \/ /\ storageFails
               /\ UNCHANGED storageVars
         /\ storeCalls' =
               IF c.op = "savePowerLevel" /\ c.by = "refreshPower"
               THEN Add(Del(storeCalls, c),
                        StoreCall("saveStepProgress", "getItem", c.id, c.then, NULL, c.by))
               ELSE Del(storeCalls, c)
    /\ UNCHANGED <<hookVars, restVars, pokemon, basePowerLevel, isLoading,
                   storedSteps, trackingStartedRef, powerMounted, loadDeps, trackDeps,
                   writeDeps, activations, activatedWith, lastLoad>>

\* The banner's button (PokemonCard.tsx lines 253-272): it asks for the
\* permission only while the hook reports that the OS may still be asked.
PressGrantPermission ==
    /\ powerMounted
    /\ ~hasPermission
    /\ canAskAgain
    /\ \A c \in BagToSet(permCalls) : c.op # "requestPermission"
    /\ CallRequestPermission

\* The detail view goes away: usePokemonPower and the hook unmount.
AppUnmount ==
    /\ Ready
    /\ powerMounted
    /\ powerMounted' = FALSE
    /\ Cleanup
    /\ UNCHANGED <<restVars, storageVars, pokemon, basePowerLevel, isLoading,
                   storedSteps, trackingStartedRef, storeCalls, loadDeps, trackDeps,
                   writeDeps, activations, activatedWith, lastLoad>>

\* What earlier runs of the app have persisted: nothing (first launch), or
\* progress of both Pokemon and a saved power level of the first.
EarlierRuns ==
    { [progress |-> << >>, power |-> << >>],
      [progress |-> (1 :> 50) @@ (2 :> 30), power |-> (1 :> 2)] }

AppInit ==
    /\ HookInit
    /\ stride = StepBatch
    /\ route = MaxBatches * StepBatch
    /\ PowerInit
    /\ powerMounted = TRUE
    /\ permissionApi = TRUE
    /\ sensorAvailable = TRUE
    /\ osPermission = "granted"
    /\ \E run \in EarlierRuns :
         /\ STEP_PROGRESS = run.progress
         /\ POWER_LEVELS = run.power
    /\ storageFails \in BOOLEAN
    /\ written = << >>
    /\ FormulaIdle
    /\ TrackerIdle

AppNext ==
    \/ AvailabilityEffect
    \/ LoadEffect
    \/ TrackEffect
    \/ WriteEffect
    \/ SetPokemon
    \/ CallRefreshPower
    \/ AppUnmount
    \/ PowerLevelsRead
    \/ StepProgressRead
    \/ SaveRead
    \/ SaveWritten
    \/ StartAvailable
    \/ AvailabilityChecked
    \/ PermissionStatus
    \/ Push
    \/ PollTick
    \/ PollResult
    \/ Walk

\* The detail view, on a device whose pedometer is available and permitted:
\* usePokemonPower drives the hook.
SpecApp == AppInit /\ [][AppNext]_vars

(***************************************************************************)
(* The detail view closed and opened again, with nothing walked            *)
(***************************************************************************)
MaxMounts == 2

\* The detail view is opened again once the one before has gone and nothing
\* of it is left: both hooks are new instances in their first render.
AppMount ==
    /\ ~powerMounted
    /\ ~mounted
    /\ mounts < MaxMounts
    /\ NoSession
    /\ storeCalls = EmptyBag
    /\ mounts' = mounts + 1
    /\ mounted' = TRUE
    /\ powerMounted' = TRUE
    \* useStepTracking.ts lines 21-32
    /\ rawSteps' = 0
    /\ isAvailable' = FALSE
    /\ isTracking' = FALSE
    /\ error' = ErrNone
    /\ hasPermission' = FALSE
    /\ canAskAgain' = TRUE
    /\ startDateRef' = NULL
    /\ subscriptionRef' = NULL
    /\ isInitializedRef' = FALSE
    /\ availabilityCheckedRef' = FALSE
    /\ pollIntervalRef' = FALSE
    /\ baselineRef' = 0
    /\ checkDeps' = << >>
    /\ autoDeps' = << >>
    /\ steps' = 0
    \* pokemon.ts lines 66-68, 80; the screen has no Pokemon yet
    /\ pokemon' = NULL
    /\ basePowerLevel' = 0
    /\ isLoading' = TRUE
    /\ storedSteps' = 0
    /\ trackingStartedRef' = NULL
    /\ loadDeps' = << >>
    /\ trackDeps' = << >>
    /\ writeDeps' = << >>
    /\ activations' = 0
    /\ lastLoad' = [done |-> FALSE, power |-> FALSE, steps |-> FALSE]
    /\ activatedWith' = 0
    /\ storeCalls' = EmptyBag
    /\ UNCHANGED <<deviceVars, resourceVars, callVars, autoStart, formulaVars, trackerVars,
                   storageVars,
                   storageFails, written, alertShown, rejected>>

\* What an earlier run has persisted for Pokemon 1: 110 steps and power level 2.
SavedRun == [progress |-> (1 :> 110), power |-> (1 :> 2)]

CycleInit ==
    /\ HookInit
    /\ stride = StepBatch
    /\ route = 0
    /\ PowerInit
    /\ powerMounted = TRUE
    /\ permissionApi = TRUE
    /\ sensorAvailable = TRUE
    /\ osPermission = "granted"
    /\ STEP_PROGRESS = SavedRun.progress
    /\ POWER_LEVELS = SavedRun.power
    /\ storageFails = FALSE
    /\ written = << >>
    /\ FormulaIdle
    /\ TrackerIdle

CycleNext ==
    \/ AvailabilityEffect
    \/ LoadEffect
    \/ TrackEffect
    \/ WriteEffect
    \/ SetPokemon
    \/ CallRefreshPower
    \/ AppUnmount
    \/ AppMount
    \/ PowerLevelsRead
    \/ StepProgressRead
    \/ SaveRead
    \/ SaveWritten
    \/ StartAvailable
    \/ AvailabilityChecked
    \/ PermissionStatus
    \/ PollTick
    \/ PollResult

\* The detail view on a device whose storage never fails, while the user
\* does not walk: shown, saved, closed and opened again.
SpecCycle == CycleInit /\ [][CycleNext]_vars

(***************************************************************************)
(* StorageService with callers of its own                                  *)
(***************************************************************************)
WrittenValues == {0, 40}

\* A caller invokes savePowerLevel / saveStepProgress (lines 189-191, 219-221),
\* once for a method and an id.
CallSave ==
    /\ StoreRoom
    /\ \E op \in {"savePowerLevel", "saveStepProgress"}, id \in Entities,
          value \in WrittenValues :
         /\ <<op, id>> \notin DOMAIN written
         /\ written' = Put(written, <<op, id>>, value)
         /\ storeCalls' = Add(storeCalls, StoreCall(op, "getItem", id, value, NULL, "caller"))
    /\ UNCHANGED <<hookVars, formulaVars, trackerVars, storageVars, storageFails, alertShown,
                   mounts,
                   rejected, pokemon, basePowerLevel, isLoading, storedSteps,
                   trackingStartedRef, powerMounted, loadDeps, trackDeps, writeDeps,
                   activations, activatedWith, lastLoad>>

StoreInit ==
    /\ DeviceInit
    /\ FirstRender
    /\ NoSession
    /\ mounted = FALSE
    /\ sensorAvailable = FALSE
    /\ permissionApi = TRUE
    /\ osPermission = "askable"
    /\ stride = 1
    /\ route = 0
    /\ PowerIdle
    /\ \E run \in EarlierRuns :
         /\ STEP_PROGRESS = run.progress
         /\ POWER_LEVELS = run.power
    /\ storageFails \in BOOLEAN
    /\ FormulaIdle
    /\ TrackerIdle

StoreNext ==
    \/ CallSave
    \/ SaveRead
    \/ SaveWritten

\* The storage service alone: no hook is mounted.
SpecStore == StoreInit /\ [][StoreNext]_vars

(***************************************************************************)
(* Claims                                                                  *)
(***************************************************************************)

\* C1: for every integer steps >= 0 the computed power level is
\* floor(steps / 100): the only q with 100 * q <= steps < 100 * (q + 1); 0, 1
\* and 99 give 0, 100 and 199 give 1, 200 gives 2, 500 gives 5, 1000 gives 10
\* and 10000 gives 100.
C1_Expected ==
    (0 :> 0) @@ (1 :> 0) @@ (99 :> 0) @@ (100 :> 1) @@ (199 :> 1) @@ (200 :> 2)
    @@ (500 :> 5) @@ (1000 :> 10) @@ (10000 :> 100)

C1_PowerIsFloor ==
    resPower # NULL =>
        /\ 100 * resPower <= argSteps
        /\ argSteps < 100 * (resPower + 1)
        /\ argSteps \in DOMAIN C1_Expected => resPower = C1_Expected[argSteps]

C1_Witness == argSteps = 199 /\ resPower = 1

\* C2: in every reachable state at most one push subscription and at most
\* one poll timer exist for the session.
C2_AtMostOneSubscriptionAndTimer ==
    /\ BagCardinality(watchers) <= 1
    /\ intervals <= 1

\* C3: while the session is stopped (from stopTracking() until a later
\* startTracking() succeeds the session is not initialized, before and after
\* the step) no step changes rawSteps.  Before the first start no
\* subscription, timer or query exists, so only a stopped session can
\* violate this.
C3_NoUpdateWhileStopped ==
    [][(~isInitializedRef /\ ~isInitializedRef') => rawSteps' = rawSteps]_vars

\* The savePowerLevel call a refreshPower() of the present render makes.
C4_CallOf(c) ==
    /\ c.by = "refreshPower"
    /\ c.op = "savePowerLevel"
    /\ c.pc = "getItem"
    /\ c.id = pokemon
    /\ c.then = storedSteps + steps
    /\ c.value = basePowerLevel + ((storedSteps + steps) \div 100)

\* The step is the one in which the setItem of call c is answered.
C4_Landed(c) ==
    /\ c.pc = "setItem"
    /\ storeCalls' = Del(storeCalls, c)
       \/ storeCalls' = Add(Del(storeCalls, c),
                            StoreCall("saveStepProgress", "getItem", c.id, c.then, NULL, c.by))

\* C4: the exposed values are totalSteps = storedSteps + steps, stepsFromPower
\* = floor(totalSteps / 100) and totalPowerLevel = basePowerLevel +
\* stepsFromPower (50, 2 and 60 give 110 / 1 / 3); a refreshPower() step hands
\* savePowerLevel the total power level and keeps the total steps for the
\* saveStepProgress that follows; a write that lands stores the value of its
\* call under the entity's key, and savePowerLevel is followed by
\* saveStepProgress of the steps kept.
C4_SavePersistsTotals ==
    [][/\ (pokemon # NULL /\ storedSteps = 50 /\ basePowerLevel = 2 /\ steps = 60)
            => (totalSteps = 110 /\ stepsFromPower = 1 /\ totalPowerLevel = 3)
       /\ (pokemon # NULL /\ storeCalls' # storeCalls /\ UNCHANGED <<storageVars, writeDeps>>
           /\ \A c \in BagToSet(storeCalls) : c.by # "refreshPower")
            => \A c \in BagToSet(storeCalls') : c.by = "refreshPower" => C4_CallOf(c)
       /\ POWER_LEVELS' # POWER_LEVELS
            => \E c \in BagToSet(storeCalls) :
                 /\ C4_Landed(c)
                 /\ c.op = "savePowerLevel"
                 /\ c.id \in DOMAIN POWER_LEVELS'
                 /\ POWER_LEVELS'[c.id] = c.value
                 /\ \E n \in BagToSet(storeCalls') :
                      /\ n.op = "saveStepProgress" /\ n.pc = "getItem"
                      /\ n.id = c.id /\ n.value = c.then /\ n.by = c.by
       /\ STEP_PROGRESS' # STEP_PROGRESS
            => \E c \in BagToSet(storeCalls) :
                 /\ C4_Landed(c)
                 /\ c.op = "saveStepProgress"
                 /\ IF c.value > 0
                    THEN c.id \in DOMAIN STEP_PROGRESS' /\ STEP_PROGRESS'[c.id] = c.value
                    ELSE c.id \notin DOMAIN STEP_PROGRESS']_vars

\* Pokemon 1, loaded with 50 steps and power 2, has walked 60 steps and has
\* been saved: the store holds power 3 and 110 steps.
C4_Witness ==
    /\ pokemon = 1
    /\ storedSteps = 50 /\ basePowerLevel = 2 /\ steps = 60
    /\ storeCalls = EmptyBag
    /\ 1 \in DOMAIN POWER_LEVELS /\ POWER_LEVELS[1] = 3
    /\ 1 \in DOMAIN STEP_PROGRESS /\ STEP_PROGRESS[1] = 110

\* C5: in every reachable state the steps the hook exposes equal
\* max(rawSteps - baseline, 0), and so are never negative.
C5_StepsClamped ==
    /\ steps >= 0
    /\ steps = (IF rawSteps > baselineRef THEN rawSteps - baselineRef ELSE 0)

\* A step inside one tracking period in which resetSteps() has moved no
\* baseline: the session is initialized before and after it, it has the one
\* subscription a period is meant to have, and the step begins none.
SamePeriod ==
    /\ isInitializedRef /\ isInitializedRef'
    /\ isTracking /\ isTracking'
    /\ BagCardinality(watchers) = 1
    /\ watchers' = watchers
    /\ baselineRef = 0 /\ baselineRef' = 0

\* C6: within one tracking period the exposed steps never decrease from one
\* state to the next.  Periods in which resetSteps() has lowered them are
\* left out: the claim is held to the two update channels only.
C6_StepsNeverDecrease ==
    [][SamePeriod => steps' >= steps]_vars

\* C7: the persisted step progress never holds a value <= 0, and a write of a
\* value <= 0 for an entity that lands removes that entity's key and leaves
\* the entry of every other entity as it was.
C7_SparseStore ==
    [][/\ \A e \in DOMAIN STEP_PROGRESS' : STEP_PROGRESS'[e] > 0
       /\ \A c \in BagToSet(storeCalls) :
            (/\ c.op = "saveStepProgress" /\ c.pc = "setItem" /\ c.value <= 0
             /\ storeCalls' = Del(storeCalls, c)
             /\ STEP_PROGRESS' # STEP_PROGRESS)
            => /\ c.id \notin DOMAIN STEP_PROGRESS'
               /\ \A e \in Entities \ {c.id} :
                    /\ e \in DOMAIN STEP_PROGRESS' <=> e \in DOMAIN STEP_PROGRESS
                    /\ e \in DOMAIN STEP_PROGRESS => STEP_PROGRESS'[e] = STEP_PROGRESS[e]]_vars

\* C8: once a load has finished the loading flag is cleared, and a value
\* whose read had failed is 0: the stored power level if the read of the power
\* levels failed, the stored steps if the read of the step progress failed.
C8_FailedLoadGivesZero ==
    lastLoad.done =>
        /\ ~isLoading
        /\ lastLoad.power => basePowerLevel = 0
        /\ lastLoad.steps => storedSteps = 0

\* Both reads of a load have failed while the store held 50 steps and power
\* level 2 for the Pokemon being loaded.
C8_Witness ==
    /\ lastLoad.done /\ lastLoad.power /\ lastLoad.steps
    /\ pokemon = 1
    /\ 1 \in DOMAIN POWER_LEVELS /\ POWER_LEVELS[1] = 2
    /\ 1 \in DOMAIN STEP_PROGRESS /\ STEP_PROGRESS[1] = 50
    /\ basePowerLevel = 0 /\ storedSteps = 0 /\ ~isLoading

\* Calls suspended on an OS permission request that no requestPermission()
\* command asked for: startTracking's and the availability effect's.
AutomaticRequests ==
    LET s == {c \in BagToSet(startCalls) : c.pc = "requestPermissionsAsync"}
        p == {c \in BagToSet(permCalls) :
                 c.pc = "requestPermissionsAsync" /\ c.op = "checkAvailability"}
    IN  BagCardinality([c \in s |-> startCalls[c]])
        + BagCardinality([c \in p |-> permCalls[c]])

PermanentlyDenied == ~hasPermission /\ ~canAskAgain

\* C9: from the permanently-denied state no step of the availability check,
\* of checkPermissionStatus or of startTracking issues an OS permission
\* request.
C9_NoAutomaticRequest ==
    [][PermanentlyDenied => AutomaticRequests' <= AutomaticRequests]_vars

\* A step that moves the baseline without beginning a subscription.
BaselineMoved ==
    /\ baselineRef' # baselineRef
    /\ watchers' = watchers

\* C10: a resetSteps() step sets the baseline to rawSteps and the exposed
\* steps are 0 after it, and it changes neither the tracking state (flag,
\* subscription, timer), nor rawSteps, nor the permission state.
C10_ResetStepsFrame ==
    [][(CallResetSteps \/ BaselineMoved) =>
          /\ baselineRef' = rawSteps
          /\ steps' = 0
          /\ UNCHANGED <<rawSteps, isTracking, isInitializedRef, subscriptionRef,
                         pollIntervalRef, watchers, intervals, startDateRef,
                         hasPermission, canAskAgain, isAvailable, error>>]_vars

\* Every write the session has issued has completed: no effect is waiting to
\* run and no storage call is suspended.
WritesCompleted ==
    /\ powerMounted
    /\ pokemon # NULL
    /\ ~PowerEffectsDue
    /\ storeCalls = EmptyBag

\* C11: on a device whose storage never fails, once every write issued for
\* the active Pokemon has completed, the persisted step progress of that
\* Pokemon equals the latest totalSteps (no entry when it is 0), in whatever
\* order the reads and writes of successive write-throughs were answered.
C11_WriteThrough ==
    (~storageFails /\ WritesCompleted) => GetOrZero(STEP_PROGRESS, pokemon) = totalSteps

\* C12: a step changes the persisted power levels only if it is the landing
\* of the savePowerLevel of a refreshPower(): loading, step updates, the
\* write-through, starting and stopping leave the mapping as it was.
C12_PowerWrittenOnlyBySave ==
    [][POWER_LEVELS' # POWER_LEVELS =>
          \E c \in BagToSet(storeCalls) :
              /\ c.by = "refreshPower"
              /\ c.op = "savePowerLevel"
              /\ c.pc = "setItem"
              /\ POWER_LEVELS' = c.map
              /\ UNCHANGED <<hookVars, STEP_PROGRESS, pokemon, basePowerLevel, storedSteps>>]_vars

\* Pokemon 1 was loaded with power level 2, tracking has delivered 60 steps,
\* the write-through has persisted 110 steps, and a save has raised the
\* persisted power level to 3 while a load of the hook is still recorded.
C12_Witness ==
    /\ pokemon = 1 /\ isTracking /\ rawSteps = 60 /\ lastLoad.done
    /\ POWER_LEVELS = (1 :> 3)
    /\ STEP_PROGRESS = (1 :> 110) @@ (2 :> 30)

\* C13: once the hook has unmounted and no startTracking() call is
\* suspended any more, neither a push subscription nor a poll timer exists.
C13_TornDownAfterUnmount ==
    (~mounted /\ startCalls = EmptyBag) => (watchers = EmptyBag /\ intervals = 0)

\* C17: on a device whose storage never fails, a finished load has put into
\* the session the steps that were persisted for the Pokemon when it was
\* activated, and once the writes of the activation have completed the
\* persisted steps of the Pokemon are not below that value.
C17_ActivationKeepsSteps ==
    /\ (~storageFails /\ lastLoad.done) => storedSteps = activatedWith
    /\ (~storageFails /\ lastLoad.done /\ WritesCompleted)
         => GetOrZero(STEP_PROGRESS, pokemon) >= activatedWith

\* OS permission requests that the availability effect's checkPermissionStatus
\* has issued and that are not answered yet.
CheckRequests ==
    LET p == {c \in BagToSet(permCalls) :
                 c.pc = "requestPermissionsAsync" /\ c.op = "checkAvailability"}
    IN  BagCardinality([c \in p |-> permCalls[c]])

\* C15: no step makes checkPermissionStatus issue an OS permission request,
\* and when the availability check finds the sensor on a platform without a
\* permission API the permission is reported granted with canAskAgain true.
C15_StatusCheckNeverPrompts ==
    [][/\ CheckRequests' <= CheckRequests
       /\ (~availabilityCheckedRef /\ availabilityCheckedRef' /\ isAvailable'
            /\ ~permissionApi) => (hasPermission' /\ canAskAgain')]_vars

\* C18: while Tracking with the one subscription of the session, no step
\* lowers rawSteps: a push event or a positive poll answer writes a value that
\* is at least the one it overwrites.
C18_RawStepsNeverDecrease ==
    [][(/\ isTracking /\ isTracking'
        /\ isInitializedRef /\ isInitializedRef'
        /\ BagCardinality(watchers) = 1
        /\ watchers' = watchers) => rawSteps' >= rawSteps]_vars

\* The step ends a startTracking() call: one suspended call fewer.
StartEnds == BagCardinality(startCalls') < BagCardinality(startCalls)

\* The step creates a push subscription.
Subscribes == BagCardinality(watchers') > BagCardinality(watchers)

\* C20: a step creates a subscription only as the end of a startTracking()
\* call to which the sensor reported available and which held the permission
\* or has just obtained it; a step that ends a call without a subscription
\* creates no timer either and leaves the session not tracking, with the
\* error set and the re-entrancy guard open for a later call.
C20_StartOnlyWhenPermitted ==
    [][/\ Subscribes =>
            \E c \in BagToSet(startCalls) :
                /\ startCalls' = Del(startCalls, c)
                /\ \/ c.pc = "isAvailableAsync" /\ sensorAvailable
                      /\ (c.perm \/ ~permissionApi)
                   \/ c.pc = "requestPermissionsAsync" /\ osPermission' = "granted"
                /\ isTracking' /\ isInitializedRef'
       /\ (StartEnds /\ ~Subscribes) =>
            /\ watchers' = watchers
            /\ intervals' = intervals
            /\ ~isTracking'
            /\ error' # ErrNone
            /\ ~isInitializedRef']_vars

\* The step ends a requestPermission() call made as a command.
RequestEnds ==
    \E c \in BagToSet(permCalls) :
        /\ c.op = "requestPermission"
        /\ c.pc = "requestPermissionsAsync"
        /\ permCalls' = Del(permCalls, c)

\* C14: no promise returned by startTracking(), stopTracking(),
\* requestPermission() or openSettings() is ever rejected; a startTracking()
\* call that ends without a subscription (availability query failed or
\* negative, permission request failed or denied, subscription setup failed)
\* leaves the error set, and so does a requestPermission() call that ends
\* without the permission; a failed settings deep link only shows the alert.
C14_NoCommandRejects ==
    [][/\ ~rejected'
       /\ (StartEnds /\ ~Subscribes) => error' # ErrNone
       /\ (RequestEnds /\ ~hasPermission') => error' # ErrNone
       /\ (alertShown' # alertShown) => (alertShown' /\ UNCHANGED hookVars)]_vars

\* The settings deep link has failed and the alert has been shown, and a
\* startTracking() call whose subscription setup threw has ended in the catch
\* of line 228 with the error of the exception (the start date is taken, no
\* subscription is held); nothing has been rejected.
C14_Witness ==
    /\ alertShown
    /\ error = ErrThrown
    /\ startDateRef # NULL /\ subscriptionRef = NULL
    /\ ~isTracking /\ ~isInitializedRef /\ watchers = EmptyBag
    /\ startCalls = EmptyBag
    /\ ~rejected

\* What the detail view shows for a Pokemon when it loads what SavedRun holds.
ShownAtStart(id) ==
    GetOrZero(SavedRun.power, id)
    + calculatePowerLevelFromSteps(GetOrZero(SavedRun.progress, id))

\* C16: saving creates no power out of nothing: while nothing is walked, the
\* power level the view shows for a Pokemon never exceeds the one it showed
\* when it first loaded it, however often the Pokemon has been saved and the
\* view closed and opened again.
C16_SaveAddsNoPower ==
    (powerMounted /\ pokemon # NULL) => totalPowerLevel <= ShownAtStart(pokemon)

\* C19: on a storage that never fails, once no call is suspended the store
\* holds, for every method and id a caller has written, the value written:
\* nothing under the key for step progress 0, the value otherwise.
C19_WritesDoNotConflict ==
    (~storageFails /\ storeCalls = EmptyBag) =>
        \A k \in DOMAIN written :
            GetOrZero(IF k[1] = "savePowerLevel" THEN POWER_LEVELS ELSE STEP_PROGRESS, k[2])
            = written[k]

\* A detail view whose storage works and whose caller may change the Pokemon
\* once while the hook stays mounted.
SwitchInit == AppInit /\ ~storageFails

SwitchNext ==
    \/ AvailabilityEffect
    \/ LoadEffect
    \/ TrackEffect
    \/ WriteEffect
    \/ SetPokemon
    \/ SwitchPokemon
    \/ PowerLevelsRead
    \/ StepProgressRead
    \/ SaveRead
    \/ SaveWritten
    \/ StartAvailable
    \/ AvailabilityChecked
    \/ PermissionStatus
    \/ Push
    \/ Walk

SpecSwitch == SwitchInit /\ [][SwitchNext]_vars

\* The step calls startTracking().
StartIssued == BagCardinality(startCalls') > BagCardinality(startCalls)

\* No session was initiated for the active Pokemon.
NoSessionForActive ==
    powerMounted /\ pokemon # NULL /\ ~PowerEffectsDue /\ trackingStartedRef # pokemon

\* C22: startTracking() is called for an active Pokemon only when tracking
\* was not yet initiated for its id, and the steps shown and stored for the
\* active Pokemon come from a session initiated for it: while none was, the
\* session contributes no steps to its totalSteps.
C22_SessionPerEntity ==
    [][/\ StartIssued => (trackingStartedRef # pokemon /\ trackingStartedRef' = pokemon)
       /\ NoSessionForActive' => (steps' = 0 /\ totalSteps' = storedSteps')]_vars

(***************************************************************************)
(* StepTracker: the listener registry of StepTrackerModule.ts              *)
(***************************************************************************)
Callbacks == {"a", "b"}
StepValues == {0, 7}

\* What the native side may pass to the handler: a plain value, null, or an
\* object; `error` is the truthiness of data.error, `type` is typeof data.steps
\* for an object and typeof data otherwise, `n` the number when it is one.
Payloads ==
    {[shape |-> "primitive", error |-> FALSE, type |-> "number", n |-> v] : v \in StepValues}
    \cup {[shape |-> "primitive", error |-> FALSE, type |-> "string", n |-> 0],
          [shape |-> "null", error |-> FALSE, type |-> "object", n |-> 0]}
    \cup {[shape |-> "object", error |-> e, type |-> "number", n |-> v] :
            e \in BOOLEAN, v \in StepValues}
    \cup {[shape |-> "object", error |-> e, type |-> t, n |-> 0] :
            e \in BOOLEAN, t \in {"string", "undefined"}}

\* typeof data === 'object' && data !== null
IsObject(data) == data.shape = "object"

\* The handler without its error test of lines 87-90.
handler_errorsDelivered(data) ==
    IF data.type = "number"
    THEN [i \in 1 .. Len(stepUpdateListeners) |-> <<stepUpdateListeners[i], data.n>>]
    ELSE << >>

\* The handler given to addListener (lines 85-99): the calls of listeners it
\* makes for one event, in order, each with the step count passed.
handler(data) ==
    IF IsObject(data) /\ data.error
    THEN << >>
    ELSE IF data.type = "number"
         THEN [i \in 1 .. Len(stepUpdateListeners) |-> <<stepUpdateListeners[i], data.n>>]
         ELSE << >>

RECURSIVE Repeat(_, _)
Repeat(k, calls) == IF k = 0 THEN << >> ELSE calls \o Repeat(k - 1, calls)

\* onStepUpdate(callback), lines 74-102.
onStepUpdate(callback) ==
    IF ~eventEmitter
    THEN UNCHANGED <<stepUpdateListeners, subscription, nativeListeners>>
    ELSE /\ stepUpdateListeners' = Append(stepUpdateListeners, callback)
         /\ IF ~subscription
            THEN subscription' = TRUE /\ nativeListeners' = nativeListeners + 1
            ELSE UNCHANGED <<subscription, nativeListeners>>

\* removeStepUpdateListener(), lines 104-110.
removeStepUpdateListener ==
    /\ IF subscription
       THEN nativeListeners' = nativeListeners - 1 /\ subscription' = FALSE
       ELSE UNCHANGED <<subscription, nativeListeners>>
    /\ stepUpdateListeners' = << >>

appVars == <<hookVars, formulaVars, storageVars, powerVars, auditVars, rejected>>

CallOnStepUpdate ==
    /\ Len(registered) < MaxListeners
    /\ \E callback \in Callbacks :
         /\ onStepUpdate(callback)
         /\ registered' = Append(registered, callback)
    /\ UNCHANGED <<eventEmitter, events, lastEvent, lastCalls, appVars>>

CallRemoveStepUpdateListener ==
    /\ removeStepUpdateListener
    /\ registered' = << >>
    /\ UNCHANGED <<eventEmitter, events, lastEvent, lastCalls, appVars>>

\* The native module emits 'onStepUpdate': the emitter calls every handler
\* it holds, one after the other.
NativeEvent ==
    /\ events < MaxEvents
    /\ events' = events + 1
    /\ \E data \in Payloads :
         /\ lastEvent' = data
         /\ lastCalls' = Repeat(nativeListeners, handler(data))
    /\ UNCHANGED <<eventEmitter, stepUpdateListeners, subscription, nativeListeners,
                   registered, appVars>>

\* The module as constructed, with or without the native module.
TrackerInit ==
    /\ HookIdle
    /\ FormulaIdle
    /\ eventEmitter \in BOOLEAN
    /\ TrackerFields

TrackerNext ==
    \/ CallOnStepUpdate
    \/ CallRemoveStepUpdateListener
    \/ NativeEvent

SpecTracker == TrackerInit /\ [][TrackerNext]_vars

\* A numeric step event: no error, and the step count is a number.
NumericEvent(data) == ~(data.shape = "object" /\ data.error) /\ data.type = "number"

\* Every registered callback called once per registration with the count.
Delivery(data) ==
    IF NumericEvent(data)
    THEN [i \in 1 .. Len(registered) |-> <<registered[i], data.n>>]
    ELSE << >>

\* C25: with the native emitter present there is at most one native
\* subscription, it exists exactly when the listener list is non-empty, and
\* an event calls every callback registered since the last removal when it is
\* numeric and no callback when it is an error or not a number.
C25_ListenerRegistry ==
    [][eventEmitter =>
         /\ nativeListeners' <= 1
         /\ (nativeListeners' = 1) <=> (stepUpdateListeners' # << >>)
         /\ (events' # events) => (lastCalls' = Delivery(lastEvent'))]_vars

\* A numeric event has been delivered to two registered callbacks, and the
\* listeners have been removed since.
C25_Witness ==
    /\ eventEmitter
    /\ NumericEvent(lastEvent)
    /\ Len(lastCalls) = 2
    /\ stepUpdateListeners = << >>
    /\ nativeListeners = 0

\* The session has been told that the sensor is unavailable.
Unavailable == ~isAvailable /\ error = ErrUnavailable

\* C21: Unavailable is terminal: no step from a state in which the sensor
\* has been reported unavailable makes the session available or Tracking.
C21_UnavailableIsTerminal ==
    [][Unavailable => (~isAvailable' /\ ~isTracking')]_vars

\* The step is the answer to a status query or to a permission request: a
\* call suspended on one of the two is resumed.
PermissionAnswered ==
    \/ \E c \in BagToSet(permCalls) :
          /\ c.pc \in {"getPermissionsAsync", "requestPermissionsAsync"}
          /\ \/ permCalls' = Del(permCalls, c)
             \/ permCalls' = Add(Del(permCalls, c), [c EXCEPT !.pc = "requestPermissionsAsync"])
          /\ permCalls' # permCalls
    \/ \E c \in BagToSet(startCalls) :
          /\ c.pc = "requestPermissionsAsync"
          /\ startCalls' = Del(startCalls, c)

\* C23: fail-open: on a device whose OS has the permission granted, every
\* answer to a status query or to a permission request leaves hasPermission
\* true, whether the OS call returned or raised.
C23_FailOpen ==
    [][(PermissionAnswered /\ osPermission' = "granted") => hasPermission']_vars

\* A start was attempted for the active Pokemon and nothing is in progress
\* any more, on a device whose sensor is available and whose permission is
\* granted: every effect has run and no availability, permission or start
\* call awaits an answer.
Settled ==
    /\ powerMounted /\ mounted /\ pokemon # NULL
    /\ trackingStartedRef = pokemon
    /\ sensorAvailable /\ osPermission = "granted"
    /\ Ready
    /\ startCalls = EmptyBag /\ permCalls = EmptyBag

\* C24: tracking starts for an active Pokemon: with the sensor available and
\* the permission granted, the hook never comes to rest after a start attempt
\* without tracking, so that every fair run reaches isTracking, also when the
\* attempt was aborted.
C24_TrackingStarts == Settled => isTracking

\* The state an aborted attempt leaves is never left, whatever is scheduled:
\* the sensor is taken for unavailable, the mount-time check is done, the
\* attempt is remembered for the active Pokemon and no start call is pending.
AbortedStaysAborted ==
    [][(/\ pokemon # NULL /\ trackingStartedRef = pokemon
        /\ ~isAvailable /\ availabilityCheckedRef /\ startCalls = EmptyBag)
       => (/\ trackingStartedRef' = pokemon' /\ ~isAvailable' /\ ~isTracking'
           /\ startCalls' = EmptyBag)]_vars

=============================================================================
